---- MODULE Spec2Model ----
(***************************************************************************)
(* Problem generators bondi, rad_bondi and cylindrical_jet_2 of AthenaK:  *)
(* parameter setup, the initial-state kernels, and the user source-term   *)
(* operators AddBHGrav, AddTabularCooling and AddJets.                    *)
(*                                                                         *)
(* Real (binary64) is modelled as decimal fixed point: a Real x is the    *)
(* integer x * ONE.  Products, quotients and square roots are rounded     *)
(* toward zero to a multiple of 1/ONE, so the arithmetic is, like the     *)
(* floating-point arithmetic it stands for, deterministic, rounding and   *)
(* not associative.  Every operation is computed limb-wise so that no     *)
(* intermediate exceeds 32 bits.                                          *)
(***************************************************************************)
EXTENDS Integers, Sequences, FiniteSets, TLC

\* ------------------------------------------------------------------------
\* Real arithmetic
\* ------------------------------------------------------------------------
LIMB == 10 * 10 * 10
ONE == LIMB * LIMB

Real(units, millionths) == units * ONE + millionths

AbsI(a) == IF a < 0 THEN -a ELSE a

SgnI(a) == IF a < 0 THEN -1 ELSE 1

\* a*b for non-negative a, b: floor(a*b/ONE), by limbs
MulPos(a, b) ==
    LET a1 == a \div LIMB
        a0 == a % LIMB
        b1 == b \div LIMB
        b0 == b % LIMB
    IN  a1 * b1 + ((a1 * b0 + a0 * b1 + ((a0 * b0) \div LIMB)) \div LIMB)

\* the Real product a*b
Mul(a, b) == SgnI(a) * SgnI(b) * MulPos(AbsI(a), AbsI(b))

\* SQR(x) of athena.hpp
SQR(a) == Mul(a, a)

RECURSIVE DivDigits(_, _, _, _)
\* long division: n further decimal digits of r/b appended to q (0 <= r < b)
DivDigits(q, r, b, n) ==
    IF n = 0 THEN q
    ELSE DivDigits(q * 10 + ((r * 10) \div b), (r * 10) % b, b, n - 1)

\* a/b for a >= 0, b > 0: floor(a*ONE/b)
DivPos(a, b) == DivDigits(a \div b, a % b, b, 6)

\* the Real quotient a/b (b # 0)
Div(a, b) == SgnI(a) * SgnI(b) * DivPos(AbsI(a), AbsI(b))

\* y*y <= a*ONE, compared by limbs
SqLeq(y, a) ==
    LET y1 == y \div LIMB
        y0 == y % LIMB
        mid == 2 * y1 * y0 + ((y0 * y0) \div LIMB)
        hi == y1 * y1 + (mid \div LIMB)
        exact == (mid % LIMB = 0) /\ ((y0 * y0) % LIMB = 0)
    IN  hi < a \/ (hi = a /\ exact)

RECURSIVE SqrtSearch(_, _, _)
\* the largest y in lo..hi with y*y <= a*ONE (lo satisfies it)
SqrtSearch(a, lo, hi) ==
    IF lo >= hi THEN lo
    ELSE LET m == (lo + hi + 1) \div 2
         IN  IF SqLeq(m, a) THEN SqrtSearch(a, m, hi)
             ELSE SqrtSearch(a, lo, m - 1)

\* sqrt(a) for a >= 0
Sqrt(a) == SqrtSearch(a, 0, a + ONE)

RECURSIVE IPow(_, _)
\* a^n for a natural number n
IPow(a, n) == IF n = 0 THEN ONE ELSE Mul(a, IPow(a, n - 1))

HALF == ONE \div 2

\* pow(a, e) for a >= 0 and an exponent e that is a multiple of one half
\* (the exponents 1.5, 3.0 and 1/(gamma-1) of the sources): a^floor(e),
\* times sqrt(a) when e has a half
Pow(a, e) ==
    LET n == e \div ONE
    IN  IF e % ONE = 0 THEN IPow(a, n) ELSE Mul(IPow(a, n), Sqrt(a))

\* ------------------------------------------------------------------------
\* Bounds of the model
\* ------------------------------------------------------------------------
\* number of MeshBlocks in the pack (nmb_thispack)
NMB == 2
\* number of integration substeps modelled
MaxSubsteps == 2
\* largest number of keys absent from the input file
MaxMissing == 1
\* largest number of passive scalars (nscalars)
MaxScalars == 1

\* ------------------------------------------------------------------------
\* State
\* ------------------------------------------------------------------------
VARIABLES
    build,            \* how the toolchain resolved the unqualified abs()
    problem,          \* the problem generator compiled in
    mesh,             \* which block layout the mesh provides
    nscalars,         \* pmbp->phydro->nscalars
    restart,          \* the restart flag passed to UserProblem
    infile,           \* the input file: key -> value, for the keys it gives
    pin,              \* ParameterInput in memory: the file, and keys added
    user_srcs_func,   \* the registered source-term callback
    pgen,             \* the parameter struct *pbh / *pjet
    u0,               \* conserved state, per active cell and variable
    w0,               \* primitive state, per active cell and variable
    pc,               \* position of the run
    nstep,            \* substeps taken
    bdt,              \* duration of the substep in progress / last taken
    u0pre,            \* u0 when the last kernel pass or handler began
    opsRun,           \* operators run by the last AddUserSrcs call
    kernel,           \* kernel of the par_for in progress
    pending           \* cells of the par_for not yet processed

vars == <<build, problem, mesh, nscalars, restart, infile, pin, user_srcs_func, pgen,
          u0, w0, pc, nstep, bdt, u0pre, opsRun, kernel, pending>>

\* ------------------------------------------------------------------------
\* Variable indices and mesh
\* ------------------------------------------------------------------------
IDN == 0
IM1 == 1
IM2 == 2
IM3 == 3
IEN == 4
nhydro == 5

\* variables of one cell when ns passive scalars are configured
VarIdx(ns) == 0 .. (nhydro + ns - 1)

\* pmbp->pmesh->mb_indcs: three active cells along x1, one along x2 and x3,
\* two ghost cells per side along x1
mb_indcs == [nx1 |-> 3, nx2 |-> 1, nx3 |-> 1,
             is |-> 2, ie |-> 4, js |-> 0, je |-> 0, ks |-> 0, ke |-> 0]

\* the two block layouts: half-width of the blocks along x1
Meshes == {"a", "b"}

X1Half(ms) == IF ms = "a" THEN Real(1, 200000) ELSE Real(1, 500000)

\* pmbp->pmb->mb_size: block m is centred on x2 = m, x3 = 0
mb_size(ms, m) ==
    [x1min |-> -X1Half(ms), x1max |-> X1Half(ms),
     x2min |-> Real(m, 0) - HALF, x2max |-> Real(m, 0) + HALF,
     x3min |-> -HALF, x3max |-> HALF]

\* the cells (m,k,j,i) a par_for over the pack visits
Cells ==
    {c \in (0 .. (NMB - 1)) \X (mb_indcs.ks .. mb_indcs.ke)
             \X (mb_indcs.js .. mb_indcs.je) \X (mb_indcs.is .. mb_indcs.ie) :
        TRUE}

\* CellCenterX of coordinates/cell_locations.hpp
CellCenterX(ith, nx, xmin, xmax) ==
    xmin + Div(Mul(Real(ith, 0) + HALF, xmax - xmin), Real(nx, 0))

\* x1v, x2v, x3v as every kernel computes them for cell c = (m,k,j,i)
X1v(ms, c) == CellCenterX(c[4] - mb_indcs.is, mb_indcs.nx1,
                          mb_size(ms, c[1]).x1min, mb_size(ms, c[1]).x1max)

X2v(ms, c) == CellCenterX(c[3] - mb_indcs.js, mb_indcs.nx2,
                          mb_size(ms, c[1]).x2min, mb_size(ms, c[1]).x2max)

X3v(ms, c) == CellCenterX(c[2] - mb_indcs.ks, mb_indcs.nx3,
                          mb_size(ms, c[1]).x3min, mb_size(ms, c[1]).x3max)

\* rad = sqrt(SQR(x1v)+SQR(x2v)+SQR(x3v))
Rad(ms, c) == Sqrt(SQR(X1v(ms, c)) + SQR(X2v(ms, c)) + SQR(X3v(ms, c)))

\* ------------------------------------------------------------------------
\* Parameter input and the parameter structs
\* ------------------------------------------------------------------------
Problems == {"bondi", "rad_bondi", "cylindrical_jet_2"}

\* one statement  p->field = pin->Get...(block, key[, dflt])  of UserProblem
Rd(field, key, dflt) == [field |-> field, key |-> key, dflt |-> dflt]

\* a setup that also reads the sound speed with GetOrAddReal
Getter_SoundSpeedDefaulted(prob, key) ==
    IF prob = "cylindrical_jet_2" /\ key = "problem/d_amb" THEN "GetOrAddReal"
    ELSE IF key \in {"problem/cs_amb", "problem/cs_cgm"} THEN "GetOrAddReal"
    ELSE "GetReal"

\* the ParameterInput method UserProblem reads a key with
Getter(prob, key) ==
    IF prob = "cylindrical_jet_2" /\ key = "problem/d_amb" THEN "GetOrAddReal"
    ELSE "GetReal"

\* the reads of UserProblem, in source order
Reads(prob) ==
    IF prob = "bondi" THEN
        << Rd("cs_amb", "problem/cs_amb", 0),
           Rd("d_amb", "problem/d_amb", 0),
           Rd("M_bh", "problem/M_bh", 0),
           Rd("epsilon", "problem/epsilon", 0),
           Rd("gamma", "hydro/gamma", 0),
           Rd("CONST_G", "problem/CONST_G", 0) >>
    ELSE IF prob = "rad_bondi" THEN
        << Rd("CONST_G", "problem/CONST_G", 0),
           Rd("CONST_K", "problem/CONST_K", 0),
           Rd("CONST_kB_cgs", "problem/CONST_kB_cgs", 0),
           Rd("CONST_mp", "problem/CONST_mp", 0),
           Rd("CONST_mu", "problem/CONST_mu", 0),
           Rd("r_vir", "problem/r_vir", 0),
           Rd("rho_vir", "problem/rho_vir", 0),
           Rd("M_bh", "problem/M_bh", 0),
           Rd("v_bh", "problem/v_bh", 0),
           Rd("rho_cgm", "problem/rho_cgm", 0),
           Rd("cs_cgm", "problem/cs_cgm", 0),
           Rd("epsilon", "problem/epsilon", 0),
           Rd("gamma_gas", "hydro/gamma", 0),
           Rd("length_cgs", "units/length_cgs", 0),
           Rd("mass_cgs", "units/mass_cgs", 0),
           Rd("time_cgs", "units/time_cgs", 0) >>
    ELSE
        << Rd("gamma", "hydro/gamma", 0),
           Rd("cs_amb", "problem/cs_amb", 0),
           Rd("d_amb", "problem/d_amb", ONE),
           Rd("l_jet", "problem/l_jet", 0),
           Rd("r_jet", "problem/r_jet", 0),
           Rd("h_jet", "problem/h_jet", 0),
           Rd("v_jet", "problem/v_jet", 0) >>

\* the members of struct pgen_bh / pgen_jet_amb
Fields(prob) ==
    IF prob = "bondi" THEN
        {"cs_amb", "d_amb", "M_bh", "gamma", "CONST_G", "epsilon"}
    ELSE IF prob = "rad_bondi" THEN
        {"CONST_G", "CONST_K", "CONST_kB_cgs", "CONST_mp", "CONST_mu", "r_vir",
         "rho_vir", "M_bh", "v_bh", "rho_cgm", "cs_cgm", "epsilon", "gamma_gas",
         "length_cgs", "mass_cgs", "time_cgs"}
    ELSE
        {"cs_amb", "d_amb", "rho_jet", "gamma", "r_jet", "h_jet", "l_jet", "v_jet"}

\* new pgen_bh() / new pgen_jet_amb(): every member value-initialised
NewPgen(prob) == [f \in Fields(prob) |-> 0]

\* the keys UserProblem looks up
Keys(prob) == {Reads(prob)[n].key : n \in 1 .. Len(Reads(prob))}

\* index of the first read whose GetReal finds its key absent, 0 when none
\* does: GetReal terminates the run there
FirstMissing(prob, pn) ==
    LET bad == {n \in 1 .. Len(Reads(prob)) :
                   /\ Getter(prob, Reads(prob)[n].key) = "GetReal"
                   /\ Reads(prob)[n].key \notin DOMAIN pn}
    IN  IF bad = {} THEN 0 ELSE CHOOSE n \in bad : \A k \in bad : n <= k

\* number of reads UserProblem completes
ReadsDone(prob, pn) ==
    IF FirstMissing(prob, pn) = 0 THEN Len(Reads(prob))
    ELSE FirstMissing(prob, pn) - 1

\* what one read returns: the value of the key, or the default of GetOrAddReal
ReadValue(rd, pn) == IF rd.key \in DOMAIN pn THEN pn[rd.key] ELSE rd.dflt

\* M_PI of <cmath>
M_PI == Real(3, 141592)

\* pjet->rho_jet = (2*l_jet)/(v_jet*v_jet*v_jet*area_jet)
RhoJet(p) ==
    LET area_jet == Mul(Mul(M_PI, p.r_jet), p.r_jet)
    IN  Div(Mul(Real(2, 0), p.l_jet),
            Mul(Mul(Mul(p.v_jet, p.v_jet), p.v_jet), area_jet))

\* the parameter struct when UserProblem returns or terminates
PopulatePgen(prob, pn, old) ==
    LET done == ReadsDone(prob, pn)
        read == [f \in Fields(prob) |->
                    IF \E n \in 1 .. done : Reads(prob)[n].field = f
                    THEN ReadValue(Reads(prob)[CHOOSE n \in 1 .. done :
                                                   Reads(prob)[n].field = f], pn)
                    ELSE old[f]]
    IN  IF prob = "cylindrical_jet_2" /\ FirstMissing(prob, pn) = 0
        THEN [read EXCEPT !.rho_jet = RhoJet(read)]
        ELSE read

\* the input file when UserProblem returns: GetOrAddReal adds an absent key
PinAfter(prob, pn) ==
    LET add == {n \in 1 .. ReadsDone(prob, pn) :
                   /\ Getter(prob, Reads(prob)[n].key) = "GetOrAddReal"
                   /\ Reads(prob)[n].key \notin DOMAIN pn}
    IN  [k \in DOMAIN pn \cup {Reads(prob)[n].key : n \in add} |->
            IF k \in DOMAIN pn THEN pn[k]
            ELSE Reads(prob)[CHOOSE n \in add : Reads(prob)[n].key = k].dflt]

\* ------------------------------------------------------------------------
\* Region predicate and profile functions
\* ------------------------------------------------------------------------
\* The builds: InJet calls abs() unqualified on a Real.  Where the headers
\* in scope declare ::abs(double) the call is fabs; where only <cmath> and
\* <cstdlib> are in scope it resolves to int abs(int) and the argument is
\* first truncated to an int.
Builds == {[abs_is_int |-> FALSE], [abs_is_int |-> TRUE]}

\* abs(x1v) as the build resolves it
Abs(bld, x) == IF bld.abs_is_int THEN (AbsI(x) \div ONE) * ONE ELSE AbsI(x)

InJet(bld, x1v, x2v, x3v, r_jet, h_jet) ==
    LET r2 == Mul(x2v, x2v) + Mul(x3v, x3v)
    IN  (r2 <= Mul(r_jet, r_jet)) /\ (Abs(bld, x1v) <= h_jet)

\* The input files give positive G, M, K and gamma > 1, so the bases of the
\* two std::pow calls of Rho_bondi are positive.
Phi_Bondi(r, epsilon, CONST_G, M_bh) ==
    Div(Mul(Mul(-ONE, CONST_G), M_bh), Sqrt(SQR(r) + SQR(epsilon)))

Rho_bondi(r, epsilon, CONST_G, M_bh, CONST_K, gamma_gas, rho_vir, r_vir) ==
    LET gm1 == gamma_gas - ONE
        coef == Mul(-ONE, Div(gm1, Mul(CONST_K, gamma_gas)))
        term1 == Mul(coef, Phi_Bondi(r, epsilon, CONST_G, M_bh))
        term2 == Mul(coef, Phi_Bondi(r_vir, epsilon, CONST_G, M_bh))
    IN  rho_vir + Pow(term1, Div(ONE, gm1)) - Pow(term2, Div(ONE, gm1))

\* ISMCoolFn of srcterms/ismcooling.hpp: a tabulated, positive cooling
\* function of the temperature
ISMCoolFn(temp) ==
    IF temp < HALF THEN Real(0, 100000)
    ELSE IF temp < Real(2, 0) THEN HALF
    ELSE ONE

\* pres/gm1 + 0.5*(SQR(m1)+SQR(m2)+SQR(m3))/dens
TotalEnergy(pres, gm1, m1, m2, m3, dens) ==
    Div(pres, gm1) + Div(Mul(HALF, SQR(m1) + SQR(m2) + SQR(m3)), dens)

\* ------------------------------------------------------------------------
\* Kernel bodies: the lambda of each par_for, for the unit of work of cell
\* c = (m,k,j,i).  A lambda sees the whole views u (u0) and w (w0); it
\* returns the view u0 as that unit of work leaves it.
\* ------------------------------------------------------------------------
\* bondi.cpp, par_for "bondi"
BondiInitLambda(u, p, c) ==
    LET pres == Mul(p.d_amb, SQR(p.cs_amb))
        gm1 == p.gamma - ONE
    IN  [u EXCEPT ![c][IDN] = p.d_amb,
                  ![c][IM1] = 0,
                  ![c][IM2] = 0,
                  ![c][IM3] = 0,
                  ![c][IEN] = TotalEnergy(pres, gm1, 0, 0, 0, p.d_amb)]

\* an initial kernel whose cut at the virial radius is rad <= r_vir
RadBondiInitLambda_InclusiveCut(u, p, ms, c) ==
    LET rad == Rad(ms, c)
        gm1 == p.gamma_gas - ONE
        inside == rad <= p.r_vir
        dens == IF inside
                THEN Rho_bondi(rad, p.epsilon, p.CONST_G, p.M_bh, p.CONST_K,
                               p.gamma_gas, p.rho_vir, p.r_vir)
                ELSE p.rho_cgm
        pres == IF inside THEN Mul(p.CONST_K, Pow(dens, p.gamma_gas))
                ELSE Mul(p.rho_cgm, SQR(p.cs_cgm))
    IN  [u EXCEPT ![c][IDN] = dens,
                  ![c][IM1] = 0,
                  ![c][IM2] = 0,
                  ![c][IM3] = 0,
                  ![c][IEN] = TotalEnergy(pres, gm1, 0, 0, 0, dens)]

\* rad_bondi.cpp, par_for "bondi"
RadBondiInitLambda(u, p, ms, c) ==
    LET rad == Rad(ms, c)
        gm1 == p.gamma_gas - ONE
        inside == rad < p.r_vir
        dens == IF inside
                THEN Rho_bondi(rad, p.epsilon, p.CONST_G, p.M_bh, p.CONST_K,
                               p.gamma_gas, p.rho_vir, p.r_vir)
                ELSE p.rho_cgm
        pres == IF inside THEN Mul(p.CONST_K, Pow(dens, p.gamma_gas))
                ELSE Mul(p.rho_cgm, SQR(p.cs_cgm))
    IN  [u EXCEPT ![c][IDN] = dens,
                  ![c][IM1] = 0,
                  ![c][IM2] = 0,
                  ![c][IM3] = 0,
                  ![c][IEN] = TotalEnergy(pres, gm1, 0, 0, 0, dens)]

\* a jet state whose passive-scalar loop stops one slot early
JetCellInside_ScalarLoopShort(old, p, ms, ns, c) ==
    LET pres == Mul(p.d_amb, SQR(p.cs_amb))
        gm1 == p.gamma - ONE
        m1 == IF Rad(ms, c) > 0 THEN Mul(p.rho_jet, p.v_jet) ELSE 0
    IN  [n \in DOMAIN old |->
            IF n = IDN THEN p.rho_jet
            ELSE IF n = IM1 THEN m1
            ELSE IF n \in {IM2, IM3} THEN 0
            ELSE IF n = IEN THEN TotalEnergy(pres, gm1, m1, 0, 0, p.rho_jet)
            ELSE IF n >= nhydro /\ n < nhydro + ns - 1 THEN ONE
            ELSE old[n]]

\* the state both jet kernels write into a cell inside the jet
JetCellInside(old, p, ms, ns, c) ==
    LET pres == Mul(p.d_amb, SQR(p.cs_amb))
        gm1 == p.gamma - ONE
        m1 == IF Rad(ms, c) > 0 THEN Mul(p.rho_jet, p.v_jet) ELSE 0
    IN  [n \in DOMAIN old |->
            IF n = IDN THEN p.rho_jet
            ELSE IF n = IM1 THEN m1
            ELSE IF n \in {IM2, IM3} THEN 0
            ELSE IF n = IEN THEN TotalEnergy(pres, gm1, m1, 0, 0, p.rho_jet)
            ELSE IF n >= nhydro /\ n < nhydro + ns THEN ONE
            ELSE old[n]]

\* the state the initial kernel writes into a cell outside the jet
JetCellOutside(old, p, ns) ==
    LET pres == Mul(p.d_amb, SQR(p.cs_amb))
        gm1 == p.gamma - ONE
    IN  [n \in DOMAIN old |->
            IF n = IDN THEN p.d_amb
            ELSE IF n \in {IM1, IM2, IM3} THEN 0
            ELSE IF n = IEN THEN TotalEnergy(pres, gm1, 0, 0, 0, p.d_amb)
            ELSE IF n >= nhydro /\ n < nhydro + ns THEN 0
            ELSE old[n]]

\* cylindrical_jet_2.cpp, par_for "jets"
JetInitLambda(u, p, ms, ns, bld, c) ==
    IF InJet(bld, X1v(ms, c), X2v(ms, c), X3v(ms, c), p.r_jet, p.h_jet)
    THEN [u EXCEPT ![c] = JetCellInside(u[c], p, ms, ns, c)]
    ELSE [u EXCEPT ![c] = JetCellOutside(u[c], p, ns)]

\* an injection kernel that adds the injection values to the cell's state
AddJetsLambda_Additive(u, p, ms, ns, bld, c) ==
    IF InJet(bld, X1v(ms, c), X2v(ms, c), X3v(ms, c), p.r_jet, p.h_jet)
    THEN [u EXCEPT ![c] = [n \in DOMAIN u[c] |->
                              u[c][n] + JetCellInside(u[c], p, ms, ns, c)[n]]]
    ELSE u

\* an injection kernel with the else branch of the initial kernel: it writes
\* the ambient state into the cells outside the jet
AddJetsLambda_ResetsOutside(u, p, ms, ns, bld, c) ==
    IF InJet(bld, X1v(ms, c), X2v(ms, c), X3v(ms, c), p.r_jet, p.h_jet)
    THEN [u EXCEPT ![c] = JetCellInside(u[c], p, ms, ns, c)]
    ELSE [u EXCEPT ![c] = JetCellOutside(u[c], p, ns)]

\* cylindrical_jet_2.cpp, AddJets, par_for "jet_inject"
AddJetsLambda(u, p, ms, ns, bld, c) ==
    IF InJet(bld, X1v(ms, c), X2v(ms, c), X3v(ms, c), p.r_jet, p.h_jet)
    THEN [u EXCEPT ![c] = JetCellInside(u[c], p, ms, ns, c)]
    ELSE u

\* a softened acceleration with the exponent 1 in place of 1.5
GradPhiByR_NoRoot(p, ms, c) ==
    Div(Mul(p.CONST_G, p.M_bh),
        Pow(SQR(Rad(ms, c)) + SQR(p.epsilon), ONE))

\* grad_phi_by_r = (CONST_G*M_bh)/pow(SQR(rad)+SQR(epsilon),1.5)
GradPhiByR(p, ms, c) ==
    Div(Mul(p.CONST_G, p.M_bh),
        Pow(SQR(Rad(ms, c)) + SQR(p.epsilon), Real(1, 500000)))

\* the density the gravity kernel multiplies by: u0(m,IDN,k,j,i) in
\* rad_bondi.cpp, pbh->d_amb in bondi.cpp
GravDensity(prob, u, p, c) == IF prob = "rad_bondi" THEN u[c][IDN] ELSE p.d_amb

\* a p_dot_r formed from the momentum the cell had when the kernel began
GravWorkMomentum_BeforeCall(old, new) == old

\* the momentum p_dot_r is formed from: the entries of u0 after the three
\* momentum statements
GravWorkMomentum(old, new) == new

\* the cell before c along x1, cyclically within the block
PrevCell(c) ==
    <<c[1], c[2], c[3],
      IF c[4] = mb_indcs.is THEN mb_indcs.ie ELSE c[4] - 1>>

\* a gravity kernel that forms p_dot_r from the momentum of the cell before
AddBHGravLambda_Neighbour(prob, u, p, ms, dt, c) ==
    LET x1v == X1v(ms, c)
        x2v == X2v(ms, c)
        x3v == X3v(ms, c)
        g == Div(Mul(p.CONST_G, p.M_bh),
                 Pow(SQR(Rad(ms, c)) + SQR(p.epsilon), Real(1, 500000)))
        dens == IF prob = "rad_bondi" THEN u[c][IDN] ELSE p.d_amb
        kick == Mul(Mul(dens, g), dt)
        u1 == [u EXCEPT ![c][IM1] = @ - Mul(kick, x1v),
                        ![c][IM2] = @ - Mul(kick, x2v),
                        ![c][IM3] = @ - Mul(kick, x3v)]
        pm == u1[PrevCell(c)]
        p_dot_r == Mul(pm[IM1], x1v) + Mul(pm[IM2], x2v) + Mul(pm[IM3], x3v)
    IN  [u1 EXCEPT ![c][IEN] = @ - Mul(Mul(p_dot_r, g), dt)]

\* AddBHGrav of bondi.cpp and rad_bondi.cpp, par_for "jet_inject"
AddBHGravLambda(prob, u, p, ms, dt, c) ==
    LET x1v == X1v(ms, c)
        x2v == X2v(ms, c)
        x3v == X3v(ms, c)
        g == GradPhiByR(p, ms, c)
        kick == Mul(Mul(GravDensity(prob, u, p, c), g), dt)
        u1 == [u EXCEPT ![c][IM1] = @ - Mul(kick, x1v),
                        ![c][IM2] = @ - Mul(kick, x2v),
                        ![c][IM3] = @ - Mul(kick, x3v)]
        pm == GravWorkMomentum(u[c], u1[c])
        p_dot_r == Mul(pm[IM1], x1v) + Mul(pm[IM2], x2v) + Mul(pm[IM3], x3v)
    IN  [u1 EXCEPT ![c][IEN] = @ - Mul(Mul(p_dot_r, g), dt)]

\* AddTabularCooling of rad_bondi.cpp, par_for "jet_inject"
AddTabularCoolingLambda(u, w, p, dt, c) ==
    LET gm1 == p.gamma_gas - ONE
        rho_cgs == Div(p.mass_cgs, Pow(p.length_cgs, Real(3, 0)))
        v_cgs == Div(p.length_cgs, p.time_cgs)
        temp_unit == Div(Mul(p.CONST_mu, p.CONST_mp), p.CONST_kB_cgs)
        cooling_rate_unit ==
            Div(p.mass_cgs, Mul(p.length_cgs, Pow(p.time_cgs, Real(3, 0))))
        dens_cgs == Mul(w[c][IDN], rho_cgs)
        pres_cgs == Mul(Mul(Mul(w[c][IEN], gm1), rho_cgs), SQR(v_cgs))
        temp_cgs == Mul(Div(pres_cgs, dens_cgs), temp_unit)
        n_cgs == Div(dens_cgs, Mul(p.CONST_mu, p.CONST_mp))
        lambda_cgs == ISMCoolFn(temp_cgs)
        cooling_rate_cgs == Mul(SQR(n_cgs), lambda_cgs)
        cooling_rate_code == Div(cooling_rate_cgs, cooling_rate_unit)
    IN  [u EXCEPT ![c][IEN] = @ - Mul(cooling_rate_code, dt)]

\* ------------------------------------------------------------------------
\* par_for and the handlers
\* ------------------------------------------------------------------------
\* the lambda of kernel kn of problem generator prob, for cell c
Lambda(kn, prob, u, w, p, ms, ns, bld, dt, c) ==
    IF kn = "init" THEN
        IF prob = "bondi" THEN BondiInitLambda(u, p, c)
        ELSE IF prob = "rad_bondi" THEN RadBondiInitLambda(u, p, ms, c)
        ELSE JetInitLambda(u, p, ms, ns, bld, c)
    ELSE IF kn = "AddBHGrav" THEN AddBHGravLambda(prob, u, p, ms, dt, c)
    ELSE IF kn = "AddTabularCooling" THEN AddTabularCoolingLambda(u, w, p, dt, c)
    ELSE AddJetsLambda(u, p, ms, ns, bld, c)

RECURSIVE ParFor(_, _, _, _, _, _, _, _, _, _)
\* a whole par_for over the cells todo, one unit of work after another
ParFor(kn, prob, u, w, p, ms, ns, bld, dt, todo) ==
    IF todo = {} THEN u
    ELSE LET c == CHOOSE x \in todo : TRUE
         IN  ParFor(kn, prob, Lambda(kn, prob, u, w, p, ms, ns, bld, dt, c),
                    w, p, ms, ns, bld, dt, todo \ {c})

\* the operators AddUserSrcs calls, in order
SrcOps(prob) ==
    IF prob = "cylindrical_jet_2" THEN <<"AddJets">> ELSE <<"AddBHGrav">>

\* the kernels each source file defines
KernelsOf(prob) ==
    IF prob = "bondi" THEN {"init", "AddBHGrav"}
    ELSE IF prob = "rad_bondi" THEN {"init", "AddBHGrav", "AddTabularCooling"}
    ELSE {"init", "AddJets"}

RECURSIVE RunOps(_, _, _, _, _, _, _, _, _)
\* u0 after the operators ops ran one after another over every cell
RunOps(ops, prob, u, w, p, ms, ns, bld, dt) ==
    IF ops = << >> THEN u
    ELSE RunOps(Tail(ops), prob,
                ParFor(Head(ops), prob, u, w, p, ms, ns, bld, dt, Cells),
                w, p, ms, ns, bld, dt)

\* a UserProblem that tests the restart flag before it reads the input file
UserProblemPgen_RestartFirst(prob, pn, rst, old) ==
    IF rst THEN old ELSE PopulatePgen(prob, pn, old)

\* the parameter struct when UserProblem returns or terminates: the reads
\* come before the statement if (restart) return; and do not depend on it
UserProblemPgen(prob, pn, rst, old) == PopulatePgen(prob, pn, old)

\* a UserProblem without the test of the restart flag
RunsInitKernel_IgnoresRestart(prob, pn, rst) == FirstMissing(prob, pn) = 0

\* whether UserProblem reaches its par_for: every required key was found and
\* the run is not a restart.  (pmbp->phydro is not null: the setup requires
\* the key gamma of the <hydro> block, with which the Hydro object exists.)
RunsInitKernel(prob, pn, rst) == FirstMissing(prob, pn) = 0 /\ ~rst

\* u0 when UserProblem returns or terminates
UserProblemField(prob, pn, rst, u, w, old, ms, ns, bld) ==
    IF RunsInitKernel(prob, pn, rst)
    THEN ParFor("init", prob, u, w, PopulatePgen(prob, pn, old), ms, ns, bld, 0,
                Cells)
    ELSE u

\* ------------------------------------------------------------------------
\* The integrator around the problem generator
\* ------------------------------------------------------------------------
\* conserved to primitive: density, velocities, internal energy density
ConsToPrim(u) ==
    [c \in DOMAIN u |->
        [n \in DOMAIN u[c] |->
            IF n = IDN THEN u[c][IDN]
            ELSE IF n \in {IM1, IM2, IM3} THEN Div(u[c][n], u[c][IDN])
            ELSE IF n = IEN
            THEN u[c][IEN] - Div(Mul(HALF, SQR(u[c][IM1]) + SQR(u[c][IM2])
                                            + SQR(u[c][IM3])), u[c][IDN])
            ELSE Div(u[c][n], u[c][IDN])]]

\* change of variable n of a cell by the flux divergence of one stage
FluxBase(n) ==
    IF n = IDN THEN Real(0, 125000)
    ELSE IF n = IM1 THEN HALF
    ELSE IF n = IM2 THEN -Real(0, 250000)
    ELSE IF n = IM3 THEN Real(0, 125000)
    ELSE IF n = IEN THEN ONE
    ELSE Real(0, 250000)

\* u0 after the flux update of one stage, of strength k
FluxUpdate(u, k) ==
    [c \in DOMAIN u |->
        [n \in DOMAIN u[c] |->
            u[c][n] + k * (c[4] - mb_indcs.is + 1) * FluxBase(n)]]

\* the substep durations bdt
BdtSet == {Real(0, 10000), HALF}

\* the view u0 as allocated: every entry zero
ZeroField(ns) == [c \in Cells |-> [n \in VarIdx(ns) |-> 0]]

\* a state read back from a restart file
CheckpointField(ns) ==
    [c \in Cells |->
        [n \in VarIdx(ns) |->
            IF n = IDN THEN HALF + (c[4] - mb_indcs.is) * Real(0, 250000)
            ELSE IF n = IEN THEN Real(3, 0) + c[1] * HALF
            ELSE IF n < nhydro THEN (n - 2) * Real(0, 250000)
            ELSE Real(0, 750000)]]

\* the value an input file gives a key, unless a variant says otherwise
KeyBase(prob, key) ==
    IF key = "hydro/gamma" THEN Real(1, 500000)
    ELSE IF key = "problem/epsilon" THEN Real(0, 100000)
    ELSE IF key = "problem/rho_vir" THEN HALF
    ELSE IF key = "problem/CONST_K" THEN Real(10, 0)
    ELSE IF key = "problem/v_bh" THEN 0
    ELSE ONE

\* the keys whose values vary between the input files
Variants(prob) ==
    IF prob = "bondi" THEN
        {("problem/d_amb" :> v) : v \in {ONE, Real(1, 500000)}}
    ELSE IF prob = "rad_bondi" THEN
        {("problem/r_vir" :> v[1]) @@ ("problem/CONST_mp" :> v[2]) :
            v \in {<<Real(0, 800000), ONE>>, <<ONE, ONE>>,
                   <<ONE, Real(0, 125000)>>}}
    ELSE
        {("problem/r_jet" :> v[1]) @@ ("problem/h_jet" :> v[2])
             @@ ("problem/d_amb" :> Real(2, 0)) :
            v \in {<<HALF, HALF>>, <<ONE, Real(0, 800000)>>}}

\* the input files that give every key
FullPins(prob) ==
    {[k \in Keys(prob) |-> IF k \in DOMAIN v THEN v[k] ELSE KeyBase(prob, k)] :
        v \in Variants(prob)}

\* the input files: at most MaxMissing keys are absent
Pins(prob) ==
    {[k \in Keys(prob) \ miss |-> f[k]] :
        f \in FullPins(prob),
        miss \in {ks \in SUBSET Keys(prob) : Cardinality(ks) <= MaxMissing}}

\* ------------------------------------------------------------------------
\* Specification of a run: setup, then substeps
\* ------------------------------------------------------------------------
Init ==
    /\ problem \in Problems
    /\ build \in {b \in Builds : problem = "cylindrical_jet_2" \/ ~b.abs_is_int}
    /\ mesh \in Meshes
    /\ nscalars \in {0, MaxScalars}
    /\ restart \in BOOLEAN
    /\ infile \in Pins(problem)
    /\ pin = infile
    /\ user_srcs_func = "nullptr"
    /\ pgen = NewPgen(problem)
    /\ u0 = IF restart THEN CheckpointField(nscalars) ELSE ZeroField(nscalars)
    /\ w0 = ZeroField(nscalars)
    /\ pc = "start"
    /\ nstep = 0
    /\ bdt = 0
    /\ u0pre = u0
    /\ opsRun = << >>
    /\ kernel = "none"
    /\ pending = {}

\* ProblemGenerator::UserProblem(pin, restart)
UserProblem ==
    /\ pc = "start"
    /\ user_srcs_func' = "AddUserSrcs"
    /\ pgen' = UserProblemPgen(problem, pin, restart, pgen)
    /\ pin' = PinAfter(problem, pin)
    /\ u0pre' = u0
    /\ u0' = UserProblemField(problem, pin, restart, u0, w0, pgen, mesh,
                              nscalars, build)
    /\ kernel' = IF RunsInitKernel(problem, pin, restart) THEN "init" ELSE "none"
    /\ pc' = IF FirstMissing(problem, pin) # 0 THEN "failed" ELSE "ready"
    /\ UNCHANGED <<build, problem, mesh, nscalars, restart, infile, w0, nstep,
                   bdt, opsRun, pending>>

\* one stage of the time integrator up to its source-term call: the
\* primitives are those of the state the stage starts from, the conserved
\* state has received the flux divergence
IntegratorStage ==
    /\ pc = "ready"
    /\ nstep < MaxSubsteps
    /\ \E k \in 0 .. 1 :
          /\ w0' = ConsToPrim(u0)
          /\ u0' = FluxUpdate(u0, k)
    /\ pc' = "sources"
    /\ UNCHANGED <<build, problem, mesh, nscalars, restart, infile, pin,
                   user_srcs_func, pgen, nstep, bdt, u0pre, opsRun, kernel, pending>>

\* AddUserSrcs(pm, bdt), called through user_srcs_func
AddUserSrcs ==
    /\ pc = "sources"
    /\ user_srcs_func = "AddUserSrcs"
    /\ \E dt \in BdtSet :
          /\ bdt' = dt
          /\ u0' = RunOps(SrcOps(problem), problem, u0, w0, pgen, mesh, nscalars,
                          build, dt)
    /\ u0pre' = u0
    /\ opsRun' = SrcOps(problem)
    /\ kernel' = SrcOps(problem)[Len(SrcOps(problem))]
    /\ nstep' = nstep + 1
    /\ pc' = "ready"
    /\ UNCHANGED <<build, problem, mesh, nscalars, restart, infile, pin,
                   user_srcs_func, pgen, w0, pending>>

Next == UserProblem \/ IntegratorStage \/ AddUserSrcs

Spec == Init /\ [][Next]_vars

\* ------------------------------------------------------------------------
\* Specification of one par_for, unit of work by unit of work: the
\* execution space runs the units of work of a pass in any order
\* ------------------------------------------------------------------------
InitPar ==
    /\ problem \in Problems
    /\ build \in {b \in Builds : problem = "cylindrical_jet_2" \/ ~b.abs_is_int}
    /\ mesh \in Meshes
    /\ nscalars = MaxScalars
    /\ restart = FALSE
    /\ \E f \in FullPins(problem) :
          /\ infile = f
          /\ pin = f
          /\ pgen = PopulatePgen(problem, f, NewPgen(problem))
    /\ user_srcs_func = "AddUserSrcs"
    /\ u0 = CheckpointField(nscalars)
    /\ w0 = ConsToPrim(CheckpointField(nscalars))
    /\ pc = "par_idle"
    /\ nstep = 0
    /\ bdt = 0
    /\ u0pre = u0
    /\ opsRun = << >>
    /\ kernel = "none"
    /\ pending = {}

\* par_for(...) is entered: every cell of every block of the pack is due
ParBegin ==
    /\ pc = "par_idle"
    /\ \E kn \in KernelsOf(problem) :
          /\ kernel' = kn
          /\ bdt' \in IF kn = "init" THEN {0} ELSE BdtSet
    /\ pending' = Cells
    /\ u0pre' = u0
    /\ pc' = "par_run"
    /\ UNCHANGED <<build, problem, mesh, nscalars, restart, infile, pin,
                   user_srcs_func, pgen, u0, w0, nstep, opsRun>>

\* the unit of work of one cell runs
ParUnit ==
    /\ pc = "par_run"
    /\ \E c \in pending :
          /\ u0' = Lambda(kernel, problem, u0, w0, pgen, mesh, nscalars, build,
                          bdt, c)
          /\ pending' = pending \ {c}
    /\ UNCHANGED <<build, problem, mesh, nscalars, restart, infile, pin,
                   user_srcs_func, pgen, w0, pc, nstep, bdt, u0pre, opsRun, kernel>>

\* the par_for returns
ParEnd ==
    /\ pc = "par_run"
    /\ pending = {}
    /\ pc' = "par_done"
    /\ UNCHANGED <<build, problem, mesh, nscalars, restart, infile, pin,
                   user_srcs_func, pgen, u0, w0, nstep, bdt, u0pre, opsRun, kernel, pending>>

NextPar == ParBegin \/ ParUnit \/ ParEnd

SpecPar == InitPar /\ [][NextPar]_vars

\* ------------------------------------------------------------------------
\* Properties
\* ------------------------------------------------------------------------
\* what the unit of work of cell c leaves in cell c when it runs on the field
\* the pass started from
UnitResult(c) ==
    Lambda(kernel, problem, u0pre, w0, pgen, mesh, nscalars, build, bdt, c)[c]

\* C1: at every point of a pass of any kernel (initial state, AddBHGrav,
\* AddTabularCooling, AddJets), in whatever order the units of work have run,
\* a cell whose unit has not run yet still holds its value from before the
\* pass, and a cell whose unit has run holds what that unit computes from the
\* parameters, the cell's position and the cell's own state before the pass.
\* The units touch no other cell, so the field after the pass does not
\* depend on the order.
C1_OrderIndependent ==
    pc \in {"par_run", "par_done"} =>
        \A c \in Cells :
            u0[c] = IF c \in pending THEN u0pre[c] ELSE UnitResult(c)

\* a pass of the gravity kernel of rad_bondi has changed the field and has
\* run the unit of work of every cell but the first of the pack
C1_Witness ==
    /\ pc = "par_run"
    /\ kernel = "AddBHGrav"
    /\ problem = "rad_bondi"
    /\ u0 # u0pre
    /\ pending = {<<0, mb_indcs.ks, mb_indcs.js, mb_indcs.is>>}

\* a call of UserProblem has returned and no substep has begun
AfterSetup == pc = "ready" /\ nstep = 0

\* a call of AddUserSrcs has returned: u0pre is the field it was given, bdt
\* the duration it was given
AfterSources == pc = "ready" /\ nstep > 0

\* whether the code classifies the centre of cell c as inside the jet
CellInJet(c) ==
    InJet(build, X1v(mesh, c), X2v(mesh, c), X3v(mesh, c), pgen.r_jet, pgen.h_jet)

\* the fixed injection values of cell c: a function of the parameters and of
\* the position of the cell only
InjectionValues(c) ==
    LET rho == pgen.rho_jet
        m1 == IF Rad(mesh, c) > 0 THEN Mul(rho, pgen.v_jet) ELSE 0
        pres == Mul(pgen.d_amb, SQR(pgen.cs_amb))
    IN  [n \in VarIdx(nscalars) |->
            IF n = IDN THEN rho
            ELSE IF n = IM1 THEN m1
            ELSE IF n \in {IM2, IM3} THEN 0
            ELSE IF n = IEN
            THEN Div(pres, pgen.gamma - ONE) + Div(Mul(HALF, SQR(m1)), rho)
            ELSE ONE]

\* C2: after the injection operator has run, every cell inside the jet holds
\* the fixed injection values in its density, momenta, energy and passive
\* scalars, whatever state the cell held before and whatever bdt was.
C2_InjectionPins ==
    (problem = "cylindrical_jet_2" /\ AfterSources) =>
        \A c \in Cells : CellInJet(c) => u0[c] = InjectionValues(c)

\* the injection operator has run with bdt = 0.5 on a cell inside the jet
\* whose state differed from the injection values in every variable
C2_Witness ==
    /\ problem = "cylindrical_jet_2"
    /\ AfterSources
    /\ bdt = HALF
    /\ \E c \in Cells :
          /\ CellInJet(c)
          /\ \A n \in VarIdx(nscalars) : u0pre[c][n] # InjectionValues(c)[n]
          /\ u0[c] = InjectionValues(c)

\* C3: a call of UserProblem with restart = true writes no entry of u0: the
\* field after the call is the field before it, in every problem generator.
C3_RestartNoOp ==
    (restart /\ AfterSetup) => u0 = u0pre

\* UserProblem has returned from a restart and the field is the non-zero
\* field of the restart file
C3_Witness ==
    /\ restart
    /\ AfterSetup
    /\ user_srcs_func = "AddUserSrcs"
    /\ u0 = CheckpointField(nscalars)
    /\ \A c \in Cells : u0[c][IDN] > 0

\* the momenta of a cell state
Mom(cell) == <<cell[IM1], cell[IM2], cell[IM3]>>

\* the position of the centre of cell c
Pos(c) == <<X1v(mesh, c), X2v(mesh, c), X3v(mesh, c)>>

\* p . x
Dot(pm, x) == Mul(pm[1], x[1]) + Mul(pm[2], x[2]) + Mul(pm[3], x[3])

\* a = G*M/(r^2+eps^2)^(3/2) at the centre of cell c
Accel(c) ==
    LET s == SQR(Rad(mesh, c)) + SQR(pgen.epsilon)
    IN  Div(Mul(pgen.CONST_G, pgen.M_bh), Mul(s, Sqrt(s)))

\* the density of the gravity source: the cell's conserved density in
\* rad_bondi, the ambient constant in bondi
SourceDensity(c) ==
    IF problem = "rad_bondi" THEN u0pre[c][IDN] ELSE pgen.d_amb

RequiredKeys ==
    Keys(problem) \ (IF problem = "cylindrical_jet_2" THEN {"problem/d_amb"} ELSE {})

\* C5: once UserProblem has been called, if a required key is absent the
\* setup has failed, no kernel has run and no cell of u0 has been written;
\* if every required key is present the setup has not failed, whether or not
\* the defaulted key d_amb of the cylindrical-jet problem is present.
C5_MissingKeyFailsEarly ==
    pc # "start" =>
        IF \E k \in RequiredKeys : k \notin DOMAIN infile
        THEN pc = "failed" /\ kernel = "none" /\ u0 = u0pre /\ nstep = 0
        ELSE pc # "failed"

\* the cylindrical-jet setup has succeeded with d_amb absent from the input
\* file, and the parameter holds the default 1
C5_WitnessDefault ==
    /\ problem = "cylindrical_jet_2"
    /\ AfterSetup
    /\ "problem/d_amb" \notin DOMAIN infile
    /\ pgen.d_amb = ONE

\* a setup has failed on the absent key hydro/gamma, with the field as it
\* was allocated
C5_Witness ==
    /\ pc = "failed"
    /\ ~restart
    /\ u0 = ZeroField(nscalars)
    /\ "hydro/gamma" \notin DOMAIN infile

\* C6: immediately after the initial-state kernel of the cylindrical-jet
\* problem, every passive-scalar slot of every cell is 1.0 if the cell centre
\* satisfies the jet predicate and 0.0 otherwise.
C6_ScalarIndicator ==
    (problem = "cylindrical_jet_2" /\ AfterSetup /\ ~restart) =>
        \A c \in Cells :
            \A n \in nhydro .. (nhydro + nscalars - 1) :
                u0[c][n] = IF CellInJet(c) THEN ONE ELSE 0

\* the initial kernel has run with a passive scalar configured, on a mesh
\* with cells inside and cells outside the jet
C6_Witness ==
    /\ problem = "cylindrical_jet_2"
    /\ AfterSetup
    /\ ~restart
    /\ nscalars > 0
    /\ \E c \in Cells : CellInJet(c) /\ u0[c][nhydro] = ONE
    /\ \E c \in Cells : ~CellInJet(c) /\ u0[c][nhydro] = 0

\* C7: in the initial state of rad_bondi, a cell at or beyond the virial
\* radius holds the ambient state (rho_cgm, zero momentum, energy
\* rho_cgm*cs_cgm^2/(gamma-1)); a cell inside it holds the Bondi density.
C7_HardCutAtVirialRadius ==
    (problem = "rad_bondi" /\ AfterSetup /\ ~restart) =>
        \A c \in Cells :
            IF Rad(mesh, c) >= pgen.r_vir
            THEN /\ u0[c][IDN] = pgen.rho_cgm
                 /\ Mom(u0[c]) = <<0, 0, 0>>
                 /\ u0[c][IEN] = Div(Mul(pgen.rho_cgm, SQR(pgen.cs_cgm)),
                                     pgen.gamma_gas - ONE)
            ELSE /\ u0[c][IDN] = Rho_bondi(Rad(mesh, c), pgen.epsilon,
                                           pgen.CONST_G, pgen.M_bh, pgen.CONST_K,
                                           pgen.gamma_gas, pgen.rho_vir, pgen.r_vir)
                 /\ u0[c][IDN] # pgen.rho_cgm

\* the initial kernel of rad_bondi has run on a mesh with a cell exactly at
\* the virial radius, which holds the ambient density, and a cell inside it
C7_Witness ==
    /\ problem = "rad_bondi"
    /\ AfterSetup
    /\ ~restart
    /\ \E c \in Cells : Rad(mesh, c) = pgen.r_vir /\ u0[c][IDN] = pgen.rho_cgm
    /\ \E c \in Cells : Rad(mesh, c) < pgen.r_vir

\* C8: the jet predicate holds of a cell centre exactly when
\* x2^2 + x3^2 <= r_jet^2 and |x1| <= h_jet, boundary included.
C8_InJetExact ==
    (problem = "cylindrical_jet_2" /\ AfterSetup) =>
        \A c \in Cells :
            CellInJet(c) <=>
                /\ SQR(X2v(mesh, c)) + SQR(X3v(mesh, c)) <= SQR(pgen.r_jet)
                /\ AbsI(X1v(mesh, c)) <= pgen.h_jet

\* the single-cell case of C9: G = M = 1, epsilon = 0.1, x = (1,0,0),
\* density 1, zero momentum before the call, bdt = 0.01
C9_Case(c) ==
    /\ problem \in {"bondi", "rad_bondi"}
    /\ AfterSources
    /\ pgen.CONST_G = ONE
    /\ pgen.M_bh = ONE
    /\ pgen.epsilon = Real(0, 100000)
    /\ Pos(c) = <<ONE, 0, 0>>
    /\ SourceDensity(c) = ONE
    /\ Mom(u0pre[c]) = <<0, 0, 0>>
    /\ bdt = Real(0, 10000)

\* C9 as stated: in that case the gravity operator leaves momentum_1 at
\* -9.803e-3, to within two units of the last digit given.
C9_AsStated ==
    \A c \in Cells : C9_Case(c) => AbsI(u0[c][IM1] + Real(0, 9803)) <= 2

\* C9 as amended: in that case the gravity operator leaves momentum_1 at
\* -9.852e-3, to within two units of the last digit given.
C9_GravityKick ==
    \A c \in Cells : C9_Case(c) => AbsI(u0[c][IM1] + Real(0, 9852)) <= 2

\* the single-cell case has occurred in the rad_bondi problem
C9_Witness ==
    \E c \in Cells : C9_Case(c) /\ problem = "rad_bondi" /\ u0[c][IM1] < 0

\* C10: on every source-term invocation of rad_bondi both AddBHGrav and
\* AddTabularCooling have been applied to every cell with the substep's bdt.
C10_GravityAndCooling ==
    (problem = "rad_bondi" /\ AfterSources) =>
        u0 = RunOps(<<"AddBHGrav", "AddTabularCooling">>, problem, u0pre, w0,
                    pgen, mesh, nscalars, build, bdt)

\* the kinetic-energy density of a conserved cell state
KineticEnergy(cell) ==
    Div(Mul(HALF, SQR(cell[IM1]) + SQR(cell[IM2]) + SQR(cell[IM3])), cell[IDN])

\* the cells whose unit of work of the running pass has finished
Finished == IF pc = "par_idle" THEN {} ELSE Cells \ pending

\* what the cooling statement subtracts from the energy of cell c
CoolingLoss(c) ==
    u0pre[c][IEN]
        - AddTabularCoolingLambda(u0pre, w0, pgen, bdt, c)[c][IEN]

\* C11: whenever subtracting cooling_rate*bdt leaves the energy of a cell
\* below its kinetic-energy density, the cooling operator does not store
\* that value: the cell ends at or above the floor of zero internal energy
\* (the operator has no path that reports an error).
C11_CoolingFlagsNegative ==
    kernel = "AddTabularCooling" =>
        \A c \in Finished :
            u0pre[c][IEN] - CoolingLoss(c) < KineticEnergy(u0pre[c]) =>
                u0[c][IEN] >= KineticEnergy(u0[c])

\* whether momentum pm is parallel to position x and in the same sense
RadiallyOutward(pm, x) ==
    /\ Mul(pm[1], x[2]) = Mul(pm[2], x[1])
    /\ Mul(pm[2], x[3]) = Mul(pm[3], x[2])
    /\ Mul(pm[3], x[1]) = Mul(pm[1], x[3])
    /\ Dot(pm, x) > 0

\* a jet kernel has run: the initial one in UserProblem or the injection in
\* AddUserSrcs
AfterJetKernel ==
    problem = "cylindrical_jet_2" /\ pc = "ready" /\ kernel \in {"init", "AddJets"}

\* C12: in every cell inside the jet, at initialization and on injection, the
\* momentum written is radially outward when the radius of the cell is > 0
\* and is zero in all three components when the radius is 0.
C12_RadialMomentum ==
    AfterJetKernel =>
        \A c \in Cells :
            CellInJet(c) =>
                IF Rad(mesh, c) > 0
                THEN RadiallyOutward(Mom(u0[c]), Pos(c))
                ELSE Mom(u0[c]) = <<0, 0, 0>>

\* the amounts the source operators of the problem add to the conserved
\* field u, given the primitives, parameters and duration of the last call
SourceAmount(u) ==
    LET after == RunOps(SrcOps(problem), problem, u, w0, pgen, mesh, nscalars,
                        build, bdt)
    IN  [c \in Cells |-> [n \in VarIdx(nscalars) |-> after[c][n] - u[c][n]]]

\* C13: the amount a source operator adds to or subtracts from u0 is
\* computed from the primitive state w0 only: with w0, the parameters, the
\* positions and bdt held fixed, the amount is the same whatever entries the
\* conserved state u0 holds.
C13_SourcesReadPrimitivesOnly ==
    (problem \in {"bondi", "rad_bondi"} /\ AfterSources) =>
        \A v \in {ZeroField(nscalars), CheckpointField(nscalars)} :
            SourceAmount(v) = SourceAmount(u0pre)

\* C14: UserProblem registers the source-term callback and populates every
\* field of the parameter struct before it tests the restart flag: once a
\* call with restart = true has returned, the callback is AddUserSrcs, every
\* field holds the value of its key (rho_jet the value derived from them),
\* the struct is the one a call with restart = false yields from the same
\* input file, and only the write of the initial state was skipped.
C14_RestartKeepsSetup ==
    (restart /\ pc \in {"ready", "sources"}) =>
        /\ user_srcs_func = "AddUserSrcs"
        /\ \A n \in 1 .. Len(Reads(problem)) :
              pgen[Reads(problem)[n].field] = pin[Reads(problem)[n].key]
        /\ problem = "cylindrical_jet_2" => pgen.rho_jet = RhoJet(pgen)
        /\ pgen = PopulatePgen(problem, infile, NewPgen(problem))
        /\ AfterSetup => (kernel = "none" /\ u0 = u0pre)

\* after a restart the registered source operators of the jet problem have
\* run with a populated struct and changed the field read from the file
C14_Witness ==
    /\ restart
    /\ AfterSources
    /\ problem = "cylindrical_jet_2"
    /\ pgen.rho_jet > 0
    /\ \E c \in Cells : CellInJet(c) /\ u0[c] # u0pre[c]

\* C15: the injection operator leaves every conserved variable of every cell
\* whose centre does not satisfy the jet predicate as it was, whatever bdt
\* and whatever state the cell held before.
C15_OutsideUntouched ==
    (problem = "cylindrical_jet_2" /\ AfterSources) =>
        \A c \in Cells : ~CellInJet(c) => u0[c] = u0pre[c]

\* the injection operator has run with bdt = 0.5 over a field in which a
\* cell outside the jet held a state the flux update had moved away from the
\* ambient one, and a cell inside the jet was overwritten
C15_Witness ==
    /\ problem = "cylindrical_jet_2"
    /\ AfterSources
    /\ bdt = HALF
    /\ \E c \in Cells :
          /\ ~CellInJet(c)
          /\ \A n \in VarIdx(nscalars) :
                u0pre[c][n] # JetCellOutside(u0pre[c], pgen, nscalars)[n]
    /\ \E c \in Cells : CellInJet(c) /\ u0[c] # u0pre[c]

====
